---- MODULE Spec2Model ----
(***************************************************************************)
(* A model of the chat orchestration core of server.py: the prompt window  *)
(* builder (generate_chat_prompt), reply extraction and stop detection     *)
(* (extract_message_from_reply), the streaming generation controller       *)
(* (generate_reply), the raw dialogue parser (tokenize_dialogue) and the   *)
(* conversation state (history) with its handlers.                         *)
(*                                                                         *)
(* Text is a sequence of one-character strings.  Two literals of the       *)
(* program that are never split are single symbols of the alphabet: the    *)
(* begin-chat sentinel and the tokenizer's end-of-text token.              *)
(***************************************************************************)
EXTENDS Integers, Sequences, FiniteSets, TLC

VARIABLES
    ex,     \* extract_message_from_reply: its inputs, position and result
    pw,     \* generate_chat_prompt: its inputs, position and result
    td,     \* tokenize_dialogue: its inputs, position and result
    gen,    \* the generate_reply generator: its arguments, locals and position
    args,   \* the command line: no_stream, and the extension pipeline loaded
    history,    \* history['internal'] and history['visible']
    character,  \* the character selected in the menu
    cw,     \* the chat generator at work (chatbot_wrapper, impersonate_wrapper)
    op,     \* the handler step taken last and how it ended
    loader  \* model_name, model and tokenizer, and load_model_wrapper's position

vars == <<ex, pw, td, gen, args, history, character, cw, op, loader>>
chatVars == <<args, history, character, cw, op, loader>>
\* a component that takes no part in the specification at hand
Off == [pc |-> "off"]
ChatOff ==
    /\ args = Off /\ history = Off /\ character = "None" /\ cw = Off /\ op = Off
    /\ loader = Off

NL == "\n"
SP == " "
\* '<|BEGIN-VISIBLE-CHAT|>', the user side of a character's greeting turn
SENTINEL == "<|BEGIN-VISIBLE-CHAT|>"
\* '<|endoftext|>', the tokenizer's end-of-sequence token
EOS == "<|endoftext|>"

Min(a, b) == IF a < b THEN a ELSE b
Max(a, b) == IF a > b THEN a ELSE b

(***************************************************************************)
(* Python's str operations, on sequences of characters.                    *)
(***************************************************************************)
\* s[k:] for k >= 0
PyFrom(s, k) == SubSeq(s, k + 1, Len(s))
\* s[:k] for k >= 0
PyTo(s, k) == SubSeq(s, 1, Min(k, Len(s)))
\* s[-j:] for j >= 1
PyTail(s, j) == SubSeq(s, Max(1, Len(s) - j + 1), Len(s))
\* s.startswith(p)
StartsWith(s, p) == Len(p) <= Len(s) /\ SubSeq(s, 1, Len(p)) = p
\* whether sub occurs in s at the 0-based offset i
OccursAt(s, sub, i) == i + Len(sub) <= Len(s) /\ SubSeq(s, i + 1, i + Len(sub)) = sub
\* s.find(sub): the lowest offset of an occurrence, -1 when there is none
Find(s, sub) ==
    LET hits == {i \in 0..Len(s) : OccursAt(s, sub, i)}
    IN  IF hits = {} THEN -1 ELSE CHOOSE i \in hits : \A k \in hits : i <= k
IsSpace(c) == c \in {SP, NL}
RECURSIVE LStrip(_)
LStrip(s) == IF s # <<>> /\ IsSpace(Head(s)) THEN LStrip(Tail(s)) ELSE s
RECURSIVE RStrip(_)
RStrip(s) == IF s # <<>> /\ IsSpace(s[Len(s)]) THEN RStrip(SubSeq(s, 1, Len(s) - 1)) ELSE s
\* s.strip()
Strip(s) == RStrip(LStrip(s))
\* s.split('\n')[0]
SplitFirstLine(s) ==
    LET i == Find(s, <<NL>>) IN IF i = -1 THEN s ELSE PyTo(s, i)
\* s.replace('\n', '\n\n')
RECURSIVE DoubleNewlines(_)
DoubleNewlines(s) ==
    IF s = <<>> THEN <<>>
    ELSE IF Head(s) = NL THEN <<NL, NL>> \o DoubleNewlines(Tail(s))
    ELSE <<Head(s)>> \o DoubleNewlines(Tail(s))
\* the length of the run of newlines s starts with
RECURSIVE NewlineRun(_)
NewlineRun(s) == IF s # <<>> /\ Head(s) = NL THEN 1 + NewlineRun(Tail(s)) ELSE 0
\* re.sub(r"\n{3,}", "\n\n", s): every run of three or more newlines becomes two
RECURSIVE CollapseNewlines(_)
CollapseNewlines(s) ==
    IF s = <<>> THEN <<>>
    ELSE LET r == NewlineRun(s)
         IN  IF r >= 3 THEN <<NL, NL>> \o CollapseNewlines(PyFrom(s, r))
             ELSE IF r >= 1 THEN PyTo(s, r) \o CollapseNewlines(PyFrom(s, r))
             ELSE <<Head(s)>> \o CollapseNewlines(Tail(s))
\* the elements of a finite set of integers in increasing order
RECURSIVE SortedSeq(_)
SortedSeq(S) ==
    IF S = {} THEN <<>>
    ELSE LET m == CHOOSE x \in S : \A y \in S : x <= y
         IN  <<m>> \o SortedSeq(S \ {m})
\* ''.join(rows)
RECURSIVE Join(_)
Join(rows) == IF rows = <<>> THEN <<>> ELSE Head(rows) \o Join(Tail(rows))
\* all the texts over an alphabet of at most n characters
RECURSIVE Texts(_, _)
Texts(alphabet, n) ==
    IF n = 0 THEN {<<>>}
    ELSE LET shorter == Texts(alphabet, n - 1)
         IN  shorter \cup {Append(t, c) : t \in {u \in shorter : Len(u) = n - 1}, c \in alphabet}

(***************************************************************************)
(* The extension pipeline.  The extensions are plug-ins outside the        *)
(* program; a pipeline is given by what its three hooks do to a text.      *)
(* NoExt is the empty pipeline, TagExt a sample one that changes all three.*)
(***************************************************************************)
NoExt == "none"
TagExt == "tag"
Pipelines == {NoExt, TagExt}
apply_extensions(pipe, text, typ) ==
    IF pipe = NoExt THEN text
    ELSE CASE typ = "input" -> <<"i">> \o text
           [] typ = "output" -> text \o <<"o">>
           [] typ = "bot_prefix" -> text \o <<SP, "x">>
           [] OTHER -> text

(***************************************************************************)
(* clean_chat_message                                                      *)
(***************************************************************************)
clean_chat_message(text) == Strip(CollapseNewlines(DoubleNewlines(text)))

(***************************************************************************)
(* encode / decode.  The tokenizer is the model library's; here a token is *)
(* a character, and the end-of-text token is the only special token.       *)
(***************************************************************************)
\* the model's maximum context length
ContextLimit == 2048
\* encode(prompt, tokens_to_generate): truncation keeps the last
\* 2048 - tokens_to_generate tokens (truncation_side = 'left')
encode(prompt, tokens_to_generate) ==
    LET max_length == ContextLimit - tokens_to_generate
    IN  IF Len(prompt) <= max_length THEN prompt
        ELSE SubSeq(prompt, Len(prompt) - max_length + 1, Len(prompt))
\* decode(output_ids): special tokens skipped, '<|endoftext|>' removed
decode(output_ids) == SelectSeq(output_ids, LAMBDA t : t # EOS)

(***************************************************************************)
(* generate_chat_prompt                                                    *)
(***************************************************************************)
\* rows.insert(1, row)
Insert1(rows, row) == <<rows[1], row>> \o Tail(rows)
\* rows.pop(1)
Pop1(rows) == <<rows[1]>> \o SubSeq(rows, 3, Len(rows))
UserRow(name1, turn) == name1 \o <<":", SP>> \o Strip(turn[1]) \o <<NL>>
BotRow(name2, turn) == name2 \o <<":", SP>> \o Strip(turn[2]) \o <<NL>>
\* a slip: count raised once for a turn, where the code raises it for every row
RECURSIVE HistoryRowsByTurn(_, _, _, _, _, _, _, _)
HistoryRowsByTurn(internal, rows, i, count, tokens, name1, name2, history_size) ==
    IF i >= 1 /\ Len(encode(Join(rows), tokens)) < ContextLimit - tokens
    THEN LET turn == internal[i]
             rows1 == Insert1(rows, BotRow(name2, turn))
             greeting == (turn[1] = <<SENTINEL>>)
             rows2 == IF greeting THEN rows1 ELSE Insert1(rows1, UserRow(name1, turn))
             count2 == count + 1
         IN  IF history_size # 0 /\ count2 >= history_size
             THEN rows2
             ELSE HistoryRowsByTurn(internal, rows2, i - 1, count2, tokens, name1, name2,
                                    history_size)
    ELSE rows
\* the first loop: the turns from the most recent backwards, while the rows
\* so far are under the budget and the row count is under history_size
RECURSIVE HistoryRows(_, _, _, _, _, _, _, _)
HistoryRows(internal, rows, i, count, tokens, name1, name2, history_size) ==
    IF i >= 1 /\ Len(encode(Join(rows), tokens)) < ContextLimit - tokens
    THEN LET turn == internal[i]
             rows1 == Insert1(rows, BotRow(name2, turn))
             greeting == (turn[1] = <<SENTINEL>>)
             rows2 == IF greeting THEN rows1 ELSE Insert1(rows1, UserRow(name1, turn))
             count2 == IF greeting THEN count + 1 ELSE count + 2
         IN  IF history_size # 0 /\ count2 >= history_size
             THEN rows2
             ELSE HistoryRows(internal, rows2, i - 1, count2, tokens, name1, name2, history_size)
    ELSE rows
\* a slip: the last loop testing > where the code tests >=
RECURSIVE TrimRowsAtBudget(_, _, _)
TrimRowsAtBudget(rows, limit, tokens) ==
    IF Len(rows) > limit /\ Len(encode(Join(rows), tokens)) > ContextLimit - tokens
    THEN TrimRowsAtBudget(Pop1(Pop1(rows)), limit, tokens)
    ELSE rows
\* the last loop: two rows dropped after the header while over the budget
RECURSIVE TrimRows(_, _, _)
TrimRows(rows, limit, tokens) ==
    IF Len(rows) > limit /\ Len(encode(Join(rows), tokens)) >= ContextLimit - tokens
    THEN TrimRows(Pop1(Pop1(rows)), limit, tokens)
    ELSE rows
\* the rows appended after the history: the pending turn and the bot prefix
PendingRows(pipe, text, name1, name2, impersonate) ==
    IF ~impersonate
    THEN <<name1 \o <<":", SP>> \o clean_chat_message(text) \o <<NL>>,
           apply_extensions(pipe, name2 \o <<":">>, "bot_prefix")>>
    ELSE <<name1 \o <<":">>>>
HeaderRow(context) == Strip(context) \o <<NL>>
\* the rows of the prompt as the function leaves them
PromptRows(pipe, internal, text, tokens, name1, name2, context, history_size, impersonate) ==
    LET rows == HistoryRows(internal, <<HeaderRow(context)>>, Len(internal), 0,
                            tokens, name1, name2, history_size)
        pending == PendingRows(pipe, text, name1, name2, impersonate)
        limit == IF impersonate THEN 2 ELSE 3
    IN  TrimRows(rows \o pending, limit, tokens)
generate_chat_prompt(pipe, internal, text, tokens, name1, name2, context, history_size, impersonate) ==
    Join(PromptRows(pipe, internal, text, tokens, name1, name2, context, history_size, impersonate))

(***************************************************************************)
(* extract_message_from_reply                                              *)
(***************************************************************************)
\* [m.start() for m in re.finditer(f"(^|\n){current}:", s)]
MarkerStarts(s, current) ==
    SortedSeq({p \in 0..Len(s) :
        \/ p = 0 /\ StartsWith(s, current \o <<":">>)
        \/ OccursAt(s, <<NL>> \o current \o <<":">>, p)})
\* a slip: the first line returned with its outer white space
StopAtNewlineUntrimmed(candidate) == SplitFirstLine(candidate)
\* a slip: the reply trimmed before it is cut at the first newline
StopAtNewlineSwapped(candidate) == SplitFirstLine(Strip(candidate))
\* reply.split('\n')[0].strip()
StopAtNewline(candidate) == Strip(SplitFirstLine(candidate))
\* the flag loop: for j in range(1, len(tmp)): reply[-j:] == tmp[:j]
SubstringFound(reply, other) ==
    LET tmp == <<NL>> \o other \o <<":">>
    IN  \E j \in 1..(Len(tmp) - 1) : PyTail(reply, j) = PyTo(tmp, j)
\* a slip: line 473, reply = reply[:idx], left out
ExtractUncut(candidate, other, check) ==
    IF check
    THEN [reply |-> StopAtNewline(candidate),
          next_character_found |-> FALSE, substring_found |-> FALSE]
    ELSE LET idx == Find(candidate, <<NL>> \o other \o <<":">>)
             reply == clean_chat_message(candidate)
         IN  [reply |-> reply,
              next_character_found |-> (idx # -1),
              substring_found |-> SubstringFound(reply, other)]
\* the part of the function after the candidate has been sliced out
ExtractFromCandidate(candidate, other, check) ==
    IF check
    THEN [reply |-> StopAtNewline(candidate),
          next_character_found |-> FALSE, substring_found |-> FALSE]
    ELSE LET idx == Find(candidate, <<NL>> \o other \o <<":">>)
             cut == IF idx # -1 THEN PyTo(candidate, idx) ELSE candidate
             reply == clean_chat_message(cut)
         IN  [reply |-> reply,
              next_character_found |-> (idx # -1),
              substring_found |-> SubstringFound(reply, other)]
\* idx[len(previous_idx)-1], with Python's negative index; "IndexError" out of range
SelectMarker(question, reply, current) ==
    LET previous_idx == MarkerStarts(question, current)
        idx == MarkerStarts(reply, current)
        k == Len(previous_idx) - 1
    IN  IF k >= 0 /\ k < Len(idx) THEN idx[k + 1]
        ELSE IF k = -1 /\ Len(idx) > 0 THEN idx[Len(idx)]
        ELSE -1
\* the candidate reply: the transcript after the selected marker and the label
Candidate(pipe, reply, idx, current, extensions) ==
    IF extensions
    THEN PyFrom(reply, idx + 1 + Len(apply_extensions(pipe, current \o <<":">>, "bot_prefix")))
    ELSE PyFrom(reply, idx + 1 + Len(current \o <<":">>))
extract_message_from_reply(pipe, question, reply, current, other, check, extensions) ==
    LET idx == SelectMarker(question, reply, current)
    IN  IF idx = -1
        THEN [error |-> "IndexError"]
        ELSE [error |-> "none"] @@
             ExtractFromCandidate(Candidate(pipe, reply, idx, current, extensions), other, check)

(***************************************************************************)
(* generate_reply, a generator: GenFirst is what its first next() runs,    *)
(* GenResume what every later next() runs, up to the next yield or to the  *)
(* end.  model.generate is the model library's: it returns its input       *)
(* followed by new tokens, at most max_new_tokens of them, the end token   *)
(* n last if at all; which ones is the model's choice.                     *)
(***************************************************************************)
\* max_new_tokens of one increment
IncrementTokens == 8
\* what model.generate may append in one call
ChunkMenu ==
    {<<"a">>, <<"a", NL>>, <<"a", NL, "Y">>, <<NL, "Y">>, <<":">>, <<EOS>>,
     <<"a", "a", "a", "a", "a", "a", "a", "a">>}
ModelChunks(n, max_new_tokens) ==
    {c \in ChunkMenu : Len(c) <= max_new_tokens /\ \A k \in 1..(Len(c) - 1) : c[k] # n}
\* formatted_outputs(reply, model_name), for a model that is neither galactica
\* nor gpt4chan: the reply in chat mode, the reply with its two renderings otherwise
formatted_outputs(chat, reply) ==
    IF chat THEN [kind |-> "chat", text |-> reply]
    ELSE [kind |-> "panes", text |-> reply]
\* the generator as created by the call, before its first next()
GenNew(chat, no_stream, pipe, question, tokens, eos_token) ==
    [pc |-> "new", chat |-> chat, no_stream |-> no_stream, pipe |-> pipe,
     original_question |-> question, tokens |-> tokens, eos_token |-> eos_token,
     calls |-> 0]
\* the reply surfaced for an output of model.generate
ReplyOf(g, question, output) ==
    IF g.chat THEN decode(output)
    ELSE g.original_question
           \o apply_extensions(g.pipe, PyFrom(decode(output), Len(question)), "output")
\* lines 249-309: up to the first yield
GenFirst(g, chunk) ==
    LET question == IF g.chat THEN g.original_question
                    ELSE apply_extensions(g.pipe, g.original_question, "input")
        input_ids == encode(question, g.tokens)
        n == IF g.eos_token = <<>> THEN EOS ELSE g.eos_token[Len(g.eos_token)]
        \* prev: the token sequence of the element yielded before the last one
        locals == [question |-> question, n |-> n, i |-> -1, prev |-> <<>>]
    IN  IF g.no_stream
        THEN LET output == input_ids \o chunk
             IN  [g EXCEPT !.pc = "yielded", !.calls = 1] @@ locals @@
                 [input_ids |-> input_ids, output |-> output,
                  yielded |-> formatted_outputs(g.chat, ReplyOf(g, question, output))]
        ELSE [g EXCEPT !.pc = "yielded"] @@ locals @@
             [input_ids |-> input_ids, output |-> input_ids,
              yielded |-> formatted_outputs(g.chat, g.original_question)]
\* a slip: line 317, input_ids = output, left out
GenResumeStale(g, chunk) ==
    LET i == g.i + 1
    IN  IF g.no_stream \/ (g.i >= 0 /\ g.output[Len(g.output)] = g.n)
           \/ i >= (g.tokens \div IncrementTokens) + 1
        THEN [g EXCEPT !.pc = "exhausted"]
        ELSE LET output == g.input_ids \o chunk
             IN  [g EXCEPT !.i = i, !.calls = @ + 1, !.output = output, !.prev = g.output,
                           !.yielded = formatted_outputs(g.chat, ReplyOf(g, g.question, output))]
\* a slip: lines 318-319, the break on the end token, left out
GenResumeNoBreak(g, chunk) ==
    LET input_ids == IF g.i >= 0 THEN g.output ELSE g.input_ids
        i == g.i + 1
    IN  IF g.no_stream \/ i >= (g.tokens \div IncrementTokens) + 1
        THEN [g EXCEPT !.pc = "exhausted"]
        ELSE LET output == input_ids \o chunk
             IN  [g EXCEPT !.i = i, !.calls = @ + 1, !.input_ids = input_ids,
                           !.output = output, !.prev = g.output,
                           !.yielded = formatted_outputs(g.chat, ReplyOf(g, g.question, output))]
\* lines 310-319: from a yield to the next one, or to the end of the generator
GenResume(g, chunk) ==
    LET input_ids == IF g.i >= 0 THEN g.output ELSE g.input_ids
        i == g.i + 1
    IN  IF g.no_stream \/ (g.i >= 0 /\ g.output[Len(g.output)] = g.n)
           \/ i >= (g.tokens \div IncrementTokens) + 1
        THEN [g EXCEPT !.pc = "exhausted"]
        ELSE LET output == input_ids \o chunk
             IN  [g EXCEPT !.i = i, !.calls = @ + 1, !.input_ids = input_ids,
                           !.output = output, !.prev = g.output,
                           !.yielded = formatted_outputs(g.chat, ReplyOf(g, g.question, output))]
\* whether the next() at hand calls model.generate
GenWillGenerate(g) ==
    \/ g.pc = "new" /\ g.no_stream
    \/ /\ g.pc = "yielded" /\ ~g.no_stream
       /\ ~(g.i >= 0 /\ g.output[Len(g.output)] = g.n)
       /\ g.i + 1 < (g.tokens \div IncrementTokens) + 1
\* the chunks the next() at hand may get from the model: one that is not
\* looked at when it does not call the model
GenChunks(g) ==
    IF ~GenWillGenerate(g) THEN {<<>>}
    ELSE LET n == IF g.eos_token = <<>> THEN EOS ELSE g.eos_token[Len(g.eos_token)]
         IN  ModelChunks(n, IF g.no_stream THEN g.tokens ELSE IncrementTokens)

(***************************************************************************)
(* tokenize_dialogue.  '<START>', '<start>' and '[CHARACTER]' are single   *)
(* symbols of the alphabet.                                                *)
(***************************************************************************)
START_UPPER == "<START>"
START_LOWER == "<start>"
CHARACTER == "[CHARACTER]"
You == <<"Y", "o", "u">>
\* re.sub(sym, '', s)
Remove(s, sym) == SelectSeq(s, LAMBDA c : c # sym)
\* re.sub('(\n|^)LABEL:', '\\1REPL:', s) for LABEL in labels: s from a place
\* that is the start of the text or follows a newline (lineStart)
RECURSIVE SubLabels(_, _, _, _)
SubLabels(s, lineStart, labels, repl) ==
    IF s = <<>> THEN <<>>
    ELSE IF lineStart /\ \E lab \in labels : StartsWith(s, lab \o <<":">>)
    THEN LET lab == CHOOSE l \in labels : StartsWith(s, l \o <<":">>)
         IN  repl \o <<":">> \o SubLabels(PyFrom(s, Len(lab) + 1), FALSE, labels, repl)
    ELSE <<Head(s)>> \o SubLabels(Tail(s), Head(s) = NL, labels, repl)
\* the four substitutions tokenize_dialogue starts with
NormalizeDialogue(dialogue, name2) ==
    LET d1 == Remove(dialogue, START_UPPER)
        d2 == Remove(d1, START_LOWER)
        d3 == SubLabels(d2, TRUE, {<<"A", "n", "o", "n">>, <<"a", "n", "o", "n">>}, You)
    IN  SubLabels(d3, TRUE, {<<CHARACTER>>}, name2)
\* [m.start() for m in re.finditer(f"(^|\n)({name1}|{name2}):", dialogue)]
LabelStarts(s, name1, name2) ==
    SortedSeq({p \in 0..Len(s) :
        \/ p = 0 /\ (StartsWith(s, name1 \o <<":">>) \/ StartsWith(s, name2 \o <<":">>))
        \/ OccursAt(s, <<NL>> \o name1 \o <<":">>, p)
        \/ OccursAt(s, <<NL>> \o name2 \o <<":">>, p)})
\* the messages: the text from each label to the next, stripped
Messages(s, idx) ==
    [i \in 1..Len(idx) |->
        Strip(SubSeq(s, idx[i] + 1, IF i < Len(idx) THEN idx[i + 1] ELSE Len(s)))]
\* the loop over the messages: entry is the turn being filled
RECURSIVE PairMessages(_, _, _, _, _)
PairMessages(messages, i, entry, name1, name2) ==
    IF i > Len(messages) THEN <<>>
    ELSE LET m == messages[i]
         IN  IF StartsWith(m, name1 \o <<":">>)
             THEN PairMessages(messages, i + 1,
                               <<Strip(PyFrom(m, Len(name1) + 1)), entry[2]>>, name1, name2)
             ELSE IF StartsWith(m, name2 \o <<":">>)
             THEN LET full == <<entry[1], Strip(PyFrom(m, Len(name2) + 1))>>
                  IN  (IF full[1] = <<>> /\ full[2] = <<>> THEN <<>> ELSE <<full>>)
                      \o PairMessages(messages, i + 1, <<<<>>, <<>>>>, name1, name2)
             ELSE PairMessages(messages, i + 1, entry, name1, name2)
tokenize_dialogue(dialogue, name1, name2) ==
    LET d == NormalizeDialogue(dialogue, name2)
        idx == LabelStarts(d, name1, name2)
    IN  IF Len(idx) = 0 THEN <<>>
        ELSE PairMessages(Messages(d, idx), 1, <<<<>>, <<>>>>, name1, name2)

(***************************************************************************)
(* SpecExtract: extract_message_from_reply applied to the transcripts of   *)
(* a one-turn prompt followed by every generated text of bounded length.   *)
(***************************************************************************)
MaxGenLen == 4
\* (pipeline, impersonate): a chat turn extracts what the bot said after
\* the bot prefix, an impersonate turn what the user would say
ExConfigs == {<<NoExt, FALSE>>, <<TagExt, FALSE>>, <<NoExt, TRUE>>}
ExName1 == <<"Y">>
ExName2 == <<"B">>
\* the prompt of a turn "hi" after the header "C", as generate_chat_prompt lays it out
ExQuestion(pipe, impersonate) ==
    <<"C", NL>> \o
    (IF impersonate THEN ExName1 \o <<":">>
     ELSE ExName1 \o <<":", SP, "h", "i", NL>> \o
          apply_extensions(pipe, ExName2 \o <<":">>, "bot_prefix"))
ExAlphabet(other) == {"a", SP, NL, ":"} \cup {other[1]}

ExtractInit ==
    /\ pw = Off /\ td = Off /\ gen = Off /\ ChatOff
    /\ \E cfg \in ExConfigs, check \in BOOLEAN :
         LET impersonate == cfg[2]
             current == IF impersonate THEN ExName1 ELSE ExName2
             other == IF impersonate THEN ExName2 ELSE ExName1
         IN  \E generated \in Texts(ExAlphabet(other), MaxGenLen) :
               ex = [pc |-> "call", pipe |-> cfg[1], extensions |-> ~impersonate,
                     question |-> ExQuestion(cfg[1], impersonate),
                     reply |-> ExQuestion(cfg[1], impersonate) \o generated,
                     current |-> current, other |-> other, check |-> check]

\* reply, next_character_found, substring_found = extract_message_from_reply(...)
ExtractCall ==
    /\ ex.pc = "call"
    /\ LET idx == SelectMarker(ex.question, ex.reply, ex.current)
       IN  ex' = [ex EXCEPT !.pc = "done"] @@
                 [candidate |-> IF idx = -1 THEN <<>>
                                ELSE Candidate(ex.pipe, ex.reply, idx, ex.current, ex.extensions),
                  out |-> extract_message_from_reply(ex.pipe, ex.question, ex.reply,
                                 ex.current, ex.other, ex.check, ex.extensions)]
    /\ UNCHANGED <<pw, td, gen, chatVars>>
\* the extraction step applied to a reply that is already its result
ExtractAgain ==
    /\ ex.pc = "done"
    /\ ex.out.error = "none"
    /\ ex' = [ex EXCEPT !.pc = "twice"] @@
             [again |-> ExtractFromCandidate(ex.out.reply, ex.other, ex.check)]
    /\ UNCHANGED <<pw, td, gen, chatVars>>

ExtractNext == ExtractCall \/ ExtractAgain
SpecExtract == ExtractInit /\ [][ExtractNext]_vars

ExDone == ex.pc \in {"done", "twice"} /\ ex.out.error = "none"
\* the candidate up to its first newline, all of it when it has none
FirstLineOf(c) ==
    CHOOSE p \in {SubSeq(c, 1, n) : n \in 0..Len(c)} :
        /\ \A i \in 1..Len(p) : p[i] # NL
        /\ (Len(p) = Len(c) \/ c[Len(p) + 1] = NL)
\* r is line without its leading and trailing white space
IsTrimOf(r, line) ==
    /\ \E i \in 0..Len(line) : \E j \in i..Len(line) :
          /\ r = SubSeq(line, i + 1, j)
          /\ \A k \in (1..i) \cup ((j + 1)..Len(line)) : IsSpace(line[k])
    /\ (r # <<>> => ~IsSpace(r[1]) /\ ~IsSpace(r[Len(r)]))
\* the tail of text is a non-empty proper prefix of "\n{other}:"
TailIsLabelPrefix(text, other) ==
    LET label == <<NL>> \o other \o <<":">>
    IN  \E j \in 1..(Len(label) - 1) :
          Len(text) >= j /\ SubSeq(text, Len(text) - j + 1, Len(text)) = SubSeq(label, 1, j)

\* C4: with stop-at-newline on, the reply is the candidate's text up to its
\* first newline with the outer white space trimmed (so nothing of a following
\* speaker, whose turn starts after a newline), it holds no newline, and
\* neither flag is raised.
C4_StopAtNewlineReply ==
    (ExDone /\ ex.check) =>
        /\ IsTrimOf(ex.out.reply, FirstLineOf(ex.candidate))
        /\ \A i \in 1..Len(ex.out.reply) : ex.out.reply[i] # NL
        /\ ~ex.out.next_character_found
        /\ ~ex.out.substring_found
\* a candidate whose first line is followed by the other speaker's turn
C4_Witness ==
    /\ ExDone /\ ex.check
    /\ ex.candidate = <<"a", NL>> \o ex.other \o <<":">>
    /\ ex.out.reply = <<"a">>

\* C5: with stop-at-newline off, substring-found is raised exactly when the
\* tail of the candidate, before it is normalized, is a non-empty proper
\* prefix of "\n{other}:" (the claim as stated).
C5_FlagIffRawTailIsPrefix ==
    (ExDone /\ ~ex.check) =>
        (ex.out.substring_found <=> TailIsLabelPrefix(ex.candidate, ex.other))

\* C8: the stop-at-newline step applied to its own result returns it unchanged.
C8_StopAtNewlineIdempotent ==
    (ex.pc = "twice" /\ ex.check) => ex.again.reply = ex.out.reply
\* a reply that was cut and trimmed, then put through the step again
C8_Witness ==
    /\ ex.pc = "twice" /\ ex.check
    /\ ex.candidate = <<SP, "a", SP, NL>>
    /\ ex.out.reply = <<"a">>
    /\ ex.again.reply = <<"a">>

(***************************************************************************)
(* SpecPrompt: generate_chat_prompt applied to every history of bounded    *)
(* length over a few turns, for every budget up to a bound.                *)
(***************************************************************************)
MaxTurns == 3
MaxBudget == 24
PwName1 == <<"Y">>
PwName2 == <<"B">>
PwContext == <<"C">>
PwText == <<"t">>
\* settings['max_new_tokens']
DefaultTokens == 200
\* a greeting turn, a full turn, a turn with an empty user side
PwTurns == {<<<<SENTINEL>>, <<"g">>>>, <<<<"u">>, <<"b">>>>, <<<<>>, <<"b">>>>}
RECURSIVE Histories(_, _)
Histories(turns, n) ==
    IF n = 0 THEN {<<>>}
    ELSE LET shorter == Histories(turns, n - 1)
         IN  shorter \cup {Append(h, t) : h \in {g \in shorter : Len(g) = n - 1}, t \in turns}

PromptInit ==
    /\ ex = Off /\ td = Off /\ gen = Off /\ ChatOff
    /\ \E internal \in Histories(PwTurns, MaxTurns),
          budget \in (1..MaxBudget) \cup {ContextLimit - DefaultTokens},
          history_size \in {0, 1, 4}, impersonate \in BOOLEAN, pipe \in Pipelines :
         pw = [pc |-> "call", pipe |-> pipe, internal |-> internal, text |-> PwText,
               tokens |-> ContextLimit - budget, history_size |-> history_size,
               impersonate |-> impersonate]
\* question = generate_chat_prompt(text, tokens, name1, name2, context, history_size)
PromptCall ==
    /\ pw.pc = "call"
    /\ LET rows == PromptRows(pw.pipe, pw.internal, pw.text, pw.tokens, PwName1, PwName2,
                              PwContext, pw.history_size, pw.impersonate)
       IN  pw' = [pw EXCEPT !.pc = "done"] @@
                 [rows |-> rows,
                  question |-> generate_chat_prompt(pw.pipe, pw.internal, pw.text, pw.tokens,
                                   PwName1, PwName2, PwContext, pw.history_size, pw.impersonate)]
    /\ UNCHANGED <<ex, td, gen, chatVars>>
PromptNext == PromptCall
SpecPrompt == PromptInit /\ [][PromptNext]_vars

PwBudget == ContextLimit - pw.tokens
PwPending == PendingRows(pw.pipe, pw.text, PwName1, PwName2, pw.impersonate)
\* the header and the rows of the pending turn alone
PwMandatory == HeaderRow(PwContext) \o Join(PwPending)
\* the rows of the turns from..Len(internal), oldest first
RECURSIVE TurnRows(_, _)
TurnRows(internal, from) ==
    IF from > Len(internal) THEN <<>>
    ELSE (IF internal[from][1] = <<SENTINEL>>
          THEN <<BotRow(PwName2, internal[from])>>
          ELSE <<UserRow(PwName1, internal[from]), BotRow(PwName2, internal[from])>>)
         \o TurnRows(internal, from + 1)

\* C2 as stated: the prompt's token count is under 2048 - tokens, whatever the inputs.
C2_PromptUnderBudget ==
    pw.pc = "done" => Len(pw.question) < PwBudget
\* C2 amended: the prompt's token count is under 2048 - tokens whenever the
\* header and the pending turn's rows alone are under it.
C2_PromptUnderBudgetWhenPendingFits ==
    (pw.pc = "done" /\ Len(PwMandatory) < PwBudget) => Len(pw.question) < PwBudget
\* a prompt that was over the budget with all its history rows, and was trimmed
\* to one that keeps some of them
C2_Witness ==
    /\ pw.pc = "done"
    /\ Len(PwMandatory) < PwBudget
    /\ Len(HeaderRow(PwContext) \o Join(TurnRows(pw.internal, 1)) \o Join(PwPending)) >= PwBudget
    /\ Len(pw.rows) > 1 + Len(PwPending)
    /\ Len(pw.question) < PwBudget

\* C3: the prompt is the header, then the rows of whole turns that form a
\* most-recent suffix of the internal history, oldest first (a greeting turn
\* its bot row alone, any other turn its user row then its bot row), then
\* what is left of the pending rows.
C3_PromptIsWholeTurns ==
    pw.pc = "done" =>
        \E k \in 1..(Len(pw.internal) + 1), m \in 0..Len(PwPending) :
            pw.rows = <<HeaderRow(PwContext)>> \o TurnRows(pw.internal, k)
                        \o SubSeq(PwPending, m + 1, Len(PwPending))

(***************************************************************************)
(* SpecDialogue: tokenize_dialogue applied to transcripts written as       *)
(* "{name1}: X\n{name2}: Y\n" per pair, for a few names and messages.      *)
(***************************************************************************)
MaxPairs == 2
\* the user's and the bot's name
TdNames == {<<You, <<"B", "o", "t">>>>, <<<<"Y">>, <<"B">>>>,
            <<<<"A", "n", "o", "n">>, <<"B", "o", "t">>>>}
\* messages: empty, one word, two lines, a sentence with a colon
TdMessages == {<<>>, <<"a">>, <<"a", NL, "b">>, <<"a", ":", SP, "b">>}
\* what a transcript may start with, before its first label
TdPreambles == {<<>>, <<START_UPPER, NL>>}
RECURSIVE Transcript(_, _, _)
Transcript(pairs, name1, name2) ==
    IF pairs = <<>> THEN <<>>
    ELSE name1 \o <<":", SP>> \o Head(pairs)[1] \o <<NL>>
         \o name2 \o <<":", SP>> \o Head(pairs)[2] \o <<NL>>
         \o Transcript(Tail(pairs), name1, name2)

DialogueInit ==
    /\ ex = Off /\ pw = Off /\ gen = Off /\ ChatOff
    /\ \E names \in TdNames, pre \in TdPreambles,
          pairs \in Histories(TdMessages \X TdMessages, MaxPairs) :
         td = [pc |-> "call", name1 |-> names[1], name2 |-> names[2], pairs |-> pairs,
               dialogue |-> pre \o Transcript(pairs, names[1], names[2])]
\* _history = tokenize_dialogue(dialogue, name1, name2)
DialogueCall ==
    /\ td.pc = "call"
    /\ td' = [td EXCEPT !.pc = "done"] @@
             [out |-> tokenize_dialogue(td.dialogue, td.name1, td.name2)]
    /\ UNCHANGED <<ex, pw, gen, chatVars>>
\* the transcript written again from the turns, one "{name1}: user\n{name2}: bot\n" each
DialogueReemit ==
    /\ td.pc = "done"
    /\ td' = [td EXCEPT !.pc = "reemitted"] @@
             [again |-> tokenize_dialogue(Transcript(td.out, td.name1, td.name2),
                                          td.name1, td.name2)]
    /\ UNCHANGED <<ex, pw, gen, chatVars>>
DialogueNext == DialogueCall \/ DialogueReemit
SpecDialogue == DialogueInit /\ [][DialogueNext]_vars

\* the pairs of a transcript that are not empty on both sides
NonEmptyPairs(pairs) == SelectSeq(pairs, LAMBDA q : ~(q[1] = <<>> /\ q[2] = <<>>))
\* C6: the turns returned are the transcript's pairs that are not empty on both
\* sides, in order, with the user side X and the bot side Y of each.
C6_TurnsAreThePairs ==
    td.pc = "done" => td.out = NonEmptyPairs(td.pairs)

(***************************************************************************)
(* SpecGen: generate_reply driven by a consumer that takes its elements    *)
(* one by one and may abandon it at any yield.                             *)
(***************************************************************************)
\* the requested numbers of new tokens
GenTokens == {1, 8, 16}
GenQuestion == <<"C", NL, "Y", ":", SP, "h", "i", NL, "B", ":">>
GenInit ==
    /\ ex = Off /\ pw = Off /\ td = Off /\ ChatOff
    /\ \E chat \in BOOLEAN, no_stream \in BOOLEAN, pipe \in Pipelines,
          tokens \in GenTokens, eos_token \in {<<>>, <<NL>>} :
         gen = GenNew(chat, no_stream, pipe, GenQuestion, tokens, eos_token)
\* the consumer's first next()
GenCall ==
    /\ gen.pc = "new"
    /\ \E chunk \in GenChunks(gen) : gen' = GenFirst(gen, chunk)
    /\ UNCHANGED <<ex, pw, td, chatVars>>
\* a later next()
GenPull ==
    /\ gen.pc = "yielded"
    /\ \E chunk \in GenChunks(gen) :
         gen' = GenResume(gen, chunk)
    /\ UNCHANGED <<ex, pw, td, chatVars>>
\* the consumer abandons the generator where it is suspended
GenAbandon ==
    /\ gen.pc = "yielded"
    /\ gen' = [gen EXCEPT !.pc = "abandoned"]
    /\ UNCHANGED <<ex, pw, td, chatVars>>
GenNext == GenCall \/ GenPull \/ GenAbandon
SpecGen == GenInit /\ [][GenNext]_vars

\* s is a prefix of t
IsPrefix(s, t) == Len(s) <= Len(t) /\ SubSeq(t, 1, Len(s)) = s
GenStreaming == gen.pc \in {"yielded", "exhausted", "abandoned"} /\ ~gen.no_stream
HELLO == "Hello there!"
Row(user, bot, id) == [user |-> user, bot |-> bot, id |-> id]
\* the rows as the [user, bot] lists the program's functions read
Pairs(rows) == [i \in 1..Len(rows) |-> <<rows[i].user, rows[i].bot>>]
\* rows for the pairs of a list built in one go, its first turn being turn first
Rows(pairs, first) ==
    [i \in 1..Len(pairs) |-> Row(pairs[i][1], pairs[i][2], first + i - 1)]
\* a turn that is in neither list: the one a new row is written for
NewId(h) ==
    LET used == {h.internal[i].id : i \in 1..Len(h.internal)}
                  \cup {h.visible[i].id : i \in 1..Len(h.visible)}
    IN  CHOOSE n \in 0..Cardinality(used) :
            n \notin used /\ \A m \in 0..(n - 1) : m \in used
\* list.pop()
Pop(rows) == SubSeq(rows, 1, Len(rows) - 1)
\* a slip: history['internal'].pop() left out
PopVisibleOnly(h) == [internal |-> h.internal, visible |-> Pop(h.visible)]
\* history['visible'].pop() and history['internal'].pop() (lines 519-520, 531-532)
PopBoth(h) == [internal |-> Pop(h.internal), visible |-> Pop(h.visible)]
\* rows[-1] = row
SetLast(rows, row) == [rows EXCEPT ![Len(rows)] = row]

(***************************************************************************)
(* load_character.  A character is its name in the menu together with the  *)
(* fields of characters/<name>.json that the function reads; name1 is the  *)
(* 'Your name' box.                                                        *)
(***************************************************************************)
NoCharacter == [name |-> "None"]
CharacterFile(name, has_greeting, char_greeting, has_example, example_dialogue) ==
    [name |-> name, char_name |-> <<"B">>,
     has_greeting |-> has_greeting, char_greeting |-> char_greeting,
     has_example |-> has_example, example_dialogue |-> example_dialogue]
\* a slip: the greeting tested without strip()
HasGreetingUnstripped(data) == data.has_greeting /\ Len(data.char_greeting) > 0
\* line 668
HasGreeting(data) == data.has_greeting /\ Len(Strip(data.char_greeting)) > 0
\* lines 655-673: the two lists as [user, bot] pairs
load_character(pipe, _character, name1) ==
    IF _character.name = "None" THEN [internal |-> <<>>, visible |-> <<>>]
    ELSE LET data == _character
             name2 == data.char_name
             example == IF data.has_example /\ data.example_dialogue # <<>>
                        THEN tokenize_dialogue(data.example_dialogue, name1, name2)
                        ELSE <<>>
         IN  IF HasGreeting(data)
             THEN [internal |-> example \o << <<<<SENTINEL>>, data.char_greeting>> >>,
                   visible |-> << <<<<>>, apply_extensions(pipe, data.char_greeting, "output")>> >>]
             ELSE [internal |-> example \o << <<<<SENTINEL>>, <<HELLO>>>> >>,
                   visible |-> << <<<<>>, <<HELLO>>>> >>]
\* the rows of the two lists load_character leaves: the visible greeting row
\* is written for the same turn as the last internal row
CharacterRows(loaded) ==
    [internal |-> Rows(loaded.internal, 0),
     visible |-> Rows(loaded.visible, Len(loaded.internal) - Len(loaded.visible))]

(***************************************************************************)
(* clear_chat_log                                                          *)
(***************************************************************************)
\* '<|BEGIN-VISIBLE-CHAT|>' in text
HasSentinel(text) == \E k \in 1..Len(text) : text[k] = SENTINEL
clear_chat_log(h, _character) ==
    IF _character.name # "None"
    THEN LET found == {i \in 1..Len(h.internal) : HasSentinel(h.internal[i].user)}
         IN  IF found = {} THEN h
             ELSE LET i == CHOOSE j \in found : \A k \in found : j <= k
                  IN  [internal |-> SubSeq(h.internal, 1, i),
                       visible |-> <<Row(<<>>, h.internal[i].bot, h.internal[i].id)>>]
    ELSE [internal |-> <<>>, visible |-> <<>>]

(***************************************************************************)
(* load_history.  An uploaded file is either JSON, given by the keys the   *)
(* function looks for, or a text that json.loads rejects.  The rows of a   *)
(* data_visible list are taken to be those of the last turns of data, as   *)
(* save_history writes them.                                               *)
(***************************************************************************)
JsonFile(has_data, data, has_visible, data_visible, has_chat, chat) ==
    [kind |-> "json", has_data |-> has_data, data |-> data,
     has_visible |-> has_visible, data_visible |-> data_visible,
     has_chat |-> has_chat, chat |-> chat]
TextFile(text) == [kind |-> "text", text |-> text]
\* bytes that are not UTF-8: file.decode('utf-8') at line 629, outside the
\* try, raises on them
BinaryFile == [kind |-> "binary"]
\* ':'.join(x.split(':')[1:]).strip()
AfterColon(x) ==
    LET k == Find(x, <<":">>)
    IN  IF k = -1 THEN <<>> ELSE Strip(PyFrom(x, k + 1))
\* [[t[i], t[i+1]] for i in range(i, len(t)-1, 2)]
RECURSIVE ChatPairs(_, _)
ChatPairs(t, i) ==
    IF i < Len(t) - 1
    THEN << <<t[i + 1], t[i + 2]>> >> \o ChatPairs(t, i + 2)
    ELSE <<>>
load_history(h, file, name1, name2) ==
    IF file.kind = "json"
    THEN IF file.has_data
         THEN [internal |-> Rows(file.data, 0),
               visible |-> IF file.has_visible
                           THEN Rows(file.data_visible,
                                     Len(file.data) - Len(file.data_visible))
                           ELSE Rows(file.data, 0)]
         ELSE IF file.has_chat
         THEN LET t == [i \in 1..Len(file.chat) |-> AfterColon(file.chat[i])]
              IN  IF Len(file.chat) > 0 /\ StartsWith(file.chat[1], name2 \o <<":">>)
                  THEN LET internal == << <<<<SENTINEL>>, t[1]>> >> \o ChatPairs(t, 1)
                       IN  [internal |-> Rows(internal, 0),
                            visible |-> Rows([internal EXCEPT ![1] = <<<<>>, @[2]>>], 0)]
                  ELSE [internal |-> Rows(ChatPairs(t, 0), 0),
                        visible |-> Rows(ChatPairs(t, 0), 0)]
         ELSE h
    ELSE LET internal == tokenize_dialogue(file.text, name1, name2)
         IN  [internal |-> Rows(internal, 0), visible |-> Rows(internal, 0)]

(***************************************************************************)
(* Spec: the chat interface.  The handlers run one at a time (the          *)
(* interface is queued, line 916); chatbot_wrapper, regenerate_wrapper and *)
(* impersonate_wrapper are generators the queue resumes after each yield,  *)
(* and the Stop button cancels them.  cw is the generator at work:         *)
(*   pc = "running"     inside a next(), before a turn of the for loop     *)
(*   pc = "yield_loop"  suspended at the yield inside the loop (498, 509)  *)
(*   pc = "yield_last"  suspended at the yield after the loop (501, 512)   *)
(*   pc = "idle"        no generator at work                               *)
(* A cancellation reaches a generator only where it is suspended: a next() *)
(* under way runs on to its yield.                                         *)
(***************************************************************************)
\* the longest history['internal'] a generation is started from
MaxHistory == 1
YourName == <<"Y">>
BotName == <<"B">>
ContextBox == <<"C">>
\* what the user may type, ask for and tick
ChatTexts == {<<"u">>}
ChatTokens == {1, 8}
ChatHistorySizes == {0}
ReplaceTexts == {<<"r">>}
\* what the model is taken to append in one call during a chat
ChatChunks == {<<>>, <<"a">>, <<NL, "Y">>, <<":">>}
ExampleDialogue == <<"Y", ":", SP, "u", NL, "B", ":", SP, "b", NL>>
\* the menu: no character, one with neither greeting nor example dialogue,
\* one with both
Characters ==
    {NoCharacter,
     CharacterFile("plain", FALSE, <<>>, FALSE, <<>>),
     CharacterFile("full", TRUE, <<"g">>, TRUE, ExampleDialogue)}
\* the files uploaded: a log of data only, one as save_history writes it
\* after a character with example dialogue was loaded, the two shapes of a
\* 'chat' list, a JSON object with neither key, a raw dialogue, and bytes
\* that are no text
HistoryFiles ==
    {JsonFile(TRUE, << <<<<"u">>, <<"b">>>> >>, FALSE, <<>>, FALSE, <<>>),
     JsonFile(TRUE, << <<<<"u">>, <<"b">>>>, <<<<SENTINEL>>, <<"g">>>> >>,
              TRUE, << <<<<>>, <<"g">>>> >>, FALSE, <<>>),
     JsonFile(FALSE, <<>>, FALSE, <<>>, TRUE,
              << <<"B", ":", SP, "g">>, <<"Y", ":", SP, "u">>, <<"B", ":", SP, "b">> >>),
     JsonFile(FALSE, <<>>, FALSE, <<>>, TRUE,
              << <<"Y", ":", SP, "u">>, <<"B", ":", SP, "b">>, <<"Y", ":", SP, "u">> >>),
     JsonFile(FALSE, <<>>, FALSE, <<>>, FALSE, <<>>),
     TextFile(ExampleDialogue), BinaryFile}
Idle == [pc |-> "idle"]
\* no generate_reply generator alive
Closed == [pc |-> "closed"]
Done(name) == [name |-> name, error |-> "none"]
Raised(name, error) == [name |-> name, error |-> error]
ChatInit ==
    /\ ex = Off /\ pw = Off /\ td = Off
    /\ gen = Closed
    /\ \E no_stream \in BOOLEAN, pipe \in Pipelines :
         args = [no_stream |-> no_stream, pipe |-> pipe]
    /\ history = [internal |-> <<>>, visible |-> <<>>]
    /\ character = NoCharacter
    /\ cw = Idle
    /\ op = Done("start")
    /\ loader = Off
\* lines 487-492 of chatbot_wrapper, from the history h: what runs before the
\* for loop
chatbot_wrapper(h, text, tokens, check, history_size) ==
    LET original_text == text
        text1 == apply_extensions(args.pipe, text, "input")
        question == generate_chat_prompt(args.pipe, Pairs(h.internal), text1, tokens,
                                         YourName, BotName, ContextBox, history_size, FALSE)
        id == NewId(h)
    IN  /\ history' = [internal |-> Append(h.internal, Row(<<>>, <<>>, id)),
                       visible |-> Append(h.visible, Row(<<>>, <<>>, id))]
        /\ gen' = GenNew(TRUE, args.no_stream, args.pipe, question, tokens,
                         IF check THEN <<NL>> ELSE <<>>)
        /\ cw' = [pc |-> "running", wrapper |-> "chatbot_wrapper", text |-> text1,
                  original_text |-> original_text, question |-> question,
                  check |-> check, before |-> h,
                  reply |-> <<>>, next_character_found |-> FALSE,
                  substring_found |-> FALSE]
\* a slip: the interface not queued, a handler started whatever is at work
QueueFreeAlways == TRUE
\* interface.queue() (line 916): the queue, of one worker, starts a handler
\* only when none is at work
QueueFree == cw.pc = "idle"
\* Generate, or Enter in the text box
Generate ==
    /\ QueueFree
    /\ Len(history.internal) < MaxHistory
    /\ \E text \in ChatTexts, tokens \in ChatTokens, check \in BOOLEAN,
          history_size \in ChatHistorySizes :
         chatbot_wrapper(history, text, tokens, check, history_size)
    /\ op' = Done("chatbot_wrapper")
    /\ UNCHANGED <<loader, ex, pw, td, args, character>>
\* Regenerate: lines 519-521, then chatbot_wrapper on the text popped
Regenerate ==
    /\ QueueFree
    /\ IF Len(history.visible) = 0
       THEN /\ op' = Raised("regenerate_wrapper", "IndexError")
            /\ UNCHANGED <<history, gen, cw>>
       ELSE IF Len(history.internal) = 0
       THEN /\ history' = [history EXCEPT !.visible = Pop(@)]
            /\ op' = Raised("regenerate_wrapper", "IndexError")
            /\ UNCHANGED <<gen, cw>>
       ELSE LET last == history.visible[Len(history.visible)]
                popped == PopBoth(history)
            IN  /\ \E tokens \in ChatTokens, check \in BOOLEAN,
                      history_size \in ChatHistorySizes :
                     chatbot_wrapper(popped, last.user, tokens, check, history_size)
                /\ op' = Done("regenerate_wrapper")
    /\ UNCHANGED <<loader, ex, pw, td, args, character>>
\* Impersonate: lines 504-505
Impersonate ==
    /\ QueueFree
    /\ \E text \in ChatTexts, tokens \in ChatTokens, check \in BOOLEAN,
          history_size \in ChatHistorySizes :
         LET question == generate_chat_prompt(args.pipe, Pairs(history.internal), text,
                             tokens, YourName, BotName, ContextBox, history_size, TRUE)
         IN  /\ gen' = GenNew(TRUE, args.no_stream, args.pipe, question, tokens,
                              IF check THEN <<NL>> ELSE <<>>)
             /\ cw' = [pc |-> "running", wrapper |-> "impersonate_wrapper", text |-> text,
                       original_text |-> text, question |-> question,
                       check |-> check, before |-> history,
                       reply |-> <<>>, next_character_found |-> FALSE,
                       substring_found |-> FALSE]
    /\ op' = Done("impersonate_wrapper")
    /\ UNCHANGED <<loader, ex, pw, td, args, character, history>>
\* a turn of the for loop (lines 493-500, 506-511): the next element of
\* generate_reply, the message extracted from it, the last rows rewritten by
\* chatbot_wrapper, and on to a yield or to the next turn
Iterate ==
    /\ cw.pc = "running"
    /\ \E chunk \in GenChunks(gen) \cap ChatChunks :
         LET g == IF gen.pc = "new" THEN GenFirst(gen, chunk) ELSE GenResume(gen, chunk)
             chat == (cw.wrapper = "chatbot_wrapper")
         IN  IF g.pc = "exhausted"
             THEN /\ gen' = Closed
                  /\ cw' = [cw EXCEPT !.pc = "yield_last"]
                  /\ op' = Done("loop")
                  /\ UNCHANGED history
             ELSE LET r == extract_message_from_reply(args.pipe, cw.question, g.yielded.text,
                               IF chat THEN BotName ELSE YourName,
                               IF chat THEN YourName ELSE BotName, cw.check, chat)
                  IN  IF r.error # "none"
                      THEN /\ gen' = Closed
                           /\ cw' = Idle
                           /\ op' = Raised(cw.wrapper, r.error)
                           /\ UNCHANGED history
                      ELSE /\ history' =
                                IF chat
                                THEN LET id == history.internal[Len(history.internal)].id
                                     IN  [internal |-> SetLast(history.internal,
                                                         Row(cw.text, r.reply, id)),
                                          visible |-> SetLast(history.visible,
                                                         Row(cw.original_text,
                                                             apply_extensions(args.pipe, r.reply, "output"),
                                                             id))]
                                ELSE history
                           /\ LET c == [cw EXCEPT !.reply = r.reply,
                                              !.next_character_found = r.next_character_found,
                                              !.substring_found = r.substring_found]
                              IN  IF ~r.substring_found
                                  THEN /\ gen' = g
                                       /\ cw' = [c EXCEPT !.pc = "yield_loop"]
                                  ELSE IF r.next_character_found
                                  THEN /\ gen' = Closed
                                       /\ cw' = [c EXCEPT !.pc = "yield_last"]
                                  ELSE /\ gen' = g
                                       /\ cw' = c
                           /\ op' = Done("loop")
    /\ UNCHANGED <<loader, ex, pw, td, args, character>>
\* a slip: the failure caught and the turn taken back
GenerateFailsCleanly ==
    /\ cw.pc = "running" /\ GenWillGenerate(gen)
    /\ cw' = Idle
    /\ gen' = Closed
    /\ history' = cw.before
    /\ op' = Raised(cw.wrapper, "GenerationError")
    /\ UNCHANGED <<loader, ex, pw, td, args, character>>
\* model.generate raises inside a turn of the loop (lines 298, 311): nothing
\* catches it in generate_reply or in the wrappers, so the generator at work
\* ends there
GenerateFails ==
    /\ cw.pc = "running" /\ GenWillGenerate(gen)
    /\ cw' = Idle
    /\ gen' = Closed
    /\ op' = Raised(cw.wrapper, "GenerationError")
    /\ UNCHANGED <<loader, ex, pw, td, args, character, history>>
\* the queue's next() on a generator suspended inside the loop: lines 499-500
\* (510-511), then the loop again or, after the break, the last yield
Resume ==
    /\ cw.pc = "yield_loop"
    /\ IF cw.next_character_found
       THEN /\ gen' = Closed
            /\ cw' = [cw EXCEPT !.pc = "yield_last"]
       ELSE /\ gen' = gen
            /\ cw' = [cw EXCEPT !.pc = "running"]
    /\ op' = Done("resume")
    /\ UNCHANGED <<loader, ex, pw, td, args, character, history>>
\* the queue's next() on a generator suspended at its last yield: it ends
Finish ==
    /\ cw.pc = "yield_last"
    /\ cw' = Idle
    /\ gen' = Closed
    /\ op' = Done("finish")
    /\ UNCHANGED <<loader, ex, pw, td, args, character, history>>
\* a slip: the cancellation lost, the generator resumed all the same
StopIgnored ==
    /\ cw.pc \in {"yield_loop", "yield_last"}
    /\ cw' = IF cw.pc = "yield_loop" /\ ~cw.next_character_found
             THEN [cw EXCEPT !.pc = "running"] ELSE cw
    /\ op' = Done("stop")
    /\ UNCHANGED <<loader, ex, pw, td, gen, args, character, history>>
\* the Stop button (line 843): the generator at work is cancelled.  A click
\* during a next() takes effect at the yield that next() runs to; this is the
\* step from that yield, after which the generator is never resumed
Stop ==
    /\ cw.pc \in {"yield_loop", "yield_last"}
    /\ cw' = Idle
    /\ gen' = Closed
    /\ op' = Done("stop")
    /\ UNCHANGED <<loader, ex, pw, td, args, character, history>>
\* Remove last
RemoveLast ==
    /\ QueueFree
    /\ IF Len(history.internal) = 0
       THEN /\ op' = Raised("remove_last_message", "IndexError")
            /\ UNCHANGED history
       ELSE IF history.internal[Len(history.internal)].user # <<SENTINEL>>
       THEN IF Len(history.visible) = 0
            THEN /\ op' = Raised("remove_last_message", "IndexError")
                 /\ UNCHANGED history
            ELSE /\ history' = PopBoth(history)
                 /\ op' = Done("remove_last_message")
       ELSE /\ op' = Done("remove_last_message")
            /\ UNCHANGED history
    /\ UNCHANGED <<loader, ex, pw, td, gen, args, character, cw>>
\* Replace last reply, with the text of the input box
ReplaceLast ==
    /\ QueueFree
    /\ \E text \in ReplaceTexts :
         IF Len(history.visible) > 0
         THEN LET visible == SetLast(history.visible,
                                [history.visible[Len(history.visible)] EXCEPT !.bot = text])
              IN  IF Len(history.internal) = 0
                  THEN /\ history' = [history EXCEPT !.visible = visible]
                       /\ op' = Raised("replace_last_reply", "IndexError")
                  ELSE /\ history' =
                            [internal |-> SetLast(history.internal,
                                 [history.internal[Len(history.internal)] EXCEPT
                                     !.bot = apply_extensions(args.pipe, text, "input")]),
                             visible |-> visible]
                       /\ op' = Done("replace_last_reply")
         ELSE /\ op' = Done("replace_last_reply")
              /\ UNCHANGED history
    /\ UNCHANGED <<loader, ex, pw, td, gen, args, character, cw>>
\* Clear history, for the character selected in the menu
Clear ==
    /\ QueueFree
    /\ history' = clear_chat_log(history, character)
    /\ op' = Done("clear_chat_log")
    /\ UNCHANGED <<loader, ex, pw, td, gen, args, character, cw>>
\* a file dropped on the upload box
Upload ==
    /\ QueueFree
    /\ \E file \in HistoryFiles :
         IF file.kind = "binary"
         THEN /\ history' = history
              /\ op' = Raised("load_history", "UnicodeDecodeError") @@ [file |-> file]
         ELSE /\ history' = load_history(history, file, YourName, BotName)
              /\ op' = Done("load_history") @@ [file |-> file]
    /\ UNCHANGED <<loader, ex, pw, td, gen, args, character, cw>>
\* the character menu changed to _character
CharacterChange ==
    /\ QueueFree
    /\ \E _character \in Characters :
         /\ history' = CharacterRows(load_character(args.pipe, _character, YourName))
         /\ character' = _character
    /\ op' = Done("load_character")
    /\ UNCHANGED <<loader, ex, pw, td, gen, args, cw>>
Next ==
    \/ Generate \/ Regenerate \/ Impersonate \/ Iterate \/ GenerateFails
    \/ Resume \/ Finish
    \/ Stop
    \/ RemoveLast \/ ReplaceLast \/ Clear \/ Upload \/ CharacterChange
Spec == ChatInit /\ [][Next]_vars

\* the k-th row from the end
FromEnd(rows, k) == rows[Len(rows) - k + 1]
\* every visible row is written for the same turn as the internal row as far
\* from the end, and no list has two rows for a turn
TailAligned(h) ==
    /\ Len(h.visible) <= Len(h.internal)
    /\ \A k \in 1..Len(h.visible) : FromEnd(h.visible, k).id = FromEnd(h.internal, k).id
    /\ \A i, j \in 1..Len(h.internal) : h.internal[i].id = h.internal[j].id => i = j
ChatAtWork == cw.pc # "idle" /\ cw.wrapper = "chatbot_wrapper"
\* the step at hand is the cancellation of the generator at work
StopStep == cw.pc # "idle" /\ op'.name = "stop"
\* the steps a generator at work takes
GeneratorSteps == {"loop", "resume", "finish"}
\* C10 as stated: cancellation takes effect only at a yield; once the
\* generator is abandoned no further increment is issued and no further write
\* to the history happens for the request; the history stays as the last
\* processed increment wrote it, with both histories of equal length.
C10_StopLeavesEqualLengths ==
    [][/\ StopStep =>
            /\ cw.pc \in {"yield_loop", "yield_last"}
            /\ cw'.pc = "idle" /\ gen'.pc = "closed"
            /\ history' = history
            /\ Len(history'.internal) = Len(history'.visible)
       /\ op.name = "stop" => op'.name \notin GeneratorSteps
       /\ gen.pc = "closed" => gen'.pc \in {"closed", "new"}]_vars
\* C10 amended: cancellation takes effect only at a yield; once the generator
\* is abandoned no further increment is issued and no further write to the
\* history happens for the request; the history stays as the last processed
\* increment wrote it: for a chat request the last row of each history is the
\* request's turn, the visible history no longer than the internal one.
C10_StopLeavesLastIncrement ==
    [][/\ StopStep =>
            /\ cw.pc \in {"yield_loop", "yield_last"}
            /\ cw'.pc = "idle" /\ gen'.pc = "closed"
            /\ history' = history
            /\ TailAligned(history')
            /\ ChatAtWork =>
                  /\ Len(history'.visible) >= 1
                  /\ FromEnd(history'.internal, 1).user = cw.text
                  /\ FromEnd(history'.visible, 1).user = cw.original_text
       /\ op.name = "stop" => op'.name \notin GeneratorSteps
       /\ gen.pc = "closed" => gen'.pc \in {"closed", "new"}]_vars
\* a streamed chat request stopped at its first yield, before any increment:
\* the request's turn is there with an empty reply
C10_Witness ==
    /\ op.name = "stop" /\ cw.pc = "idle" /\ gen.pc = "closed"
    /\ ~args.no_stream
    /\ Len(history.internal) = 1 /\ Len(history.visible) = 1
    /\ history.visible[1].user = <<"u">> /\ history.visible[1].bot = <<>>

(***************************************************************************)
(* SpecCharacter: the character menu over characters with every shape of   *)
(* greeting and example dialogue, and the handlers that edit the history   *)
(* a character leaves.                                                     *)
(***************************************************************************)
Greetings == {<<>>, <<SP>>, <<NL>>, <<"g">>, <<SP, "g">>, <<"g", NL>>}
ExampleDialogues ==
    {<<>>, ExampleDialogue,
     <<START_UPPER, NL, "Y", ":", SP, "u", NL, CHARACTER, ":", SP, "b">>}
GreetingCharacters ==
    {CharacterFile("k", TRUE, g, TRUE, e) : g \in Greetings, e \in ExampleDialogues}
      \cup {CharacterFile("k", FALSE, <<>>, TRUE, e) : e \in ExampleDialogues}
      \cup {CharacterFile("k", TRUE, g, FALSE, <<>>) : g \in Greetings}
CharacterPick ==
    /\ QueueFree
    /\ \E _character \in GreetingCharacters :
         /\ history' = CharacterRows(load_character(args.pipe, _character, YourName))
         /\ character' = _character
    /\ op' = Done("load_character")
    /\ UNCHANGED <<loader, ex, pw, td, gen, args, cw>>
CharacterNext == CharacterPick \/ Clear \/ ReplaceLast \/ RemoveLast
SpecCharacter == ChatInit /\ [][CharacterNext]_vars

\* a character has just been loaded
CharacterLoaded == op.name = "load_character" /\ character.name # "None"
\* the last turn is a greeting turn with the bot texts given
GreetingTurn(internal_bot, visible_bot) ==
    /\ Len(history.internal) >= 1 /\ Len(history.visible) >= 1
    /\ FromEnd(history.internal, 1).user = <<SENTINEL>>
    /\ FromEnd(history.visible, 1).user = <<>>
    /\ FromEnd(history.internal, 1).bot = internal_bot
    /\ FromEnd(history.visible, 1).bot = visible_bot
\* the character's file has no greeting, or an empty or whitespace-only one
BlankGreeting == ~character.has_greeting \/ Strip(character.char_greeting) = <<>>
\* C7 as stated: after load_character for a character whose char_greeting is
\* missing, empty or whitespace-only the last turn is the greeting turn with
\* bot text "Hello there!", internal user side the sentinel, visible user side
\* empty; for a non-empty greeting the last turn is the same shape with the
\* character's greeting as bot text.
C7_GreetingTurnVerbatim ==
    CharacterLoaded =>
        IF BlankGreeting THEN GreetingTurn(<<HELLO>>, <<HELLO>>)
        ELSE GreetingTurn(character.char_greeting, character.char_greeting)
\* C7 amended: the same, except that for a non-empty greeting the visible bot
\* text is the greeting as the output modifiers of the extensions leave it
\* (the internal bot text is the greeting as it is in the file).
C7_GreetingTurn ==
    CharacterLoaded =>
        IF BlankGreeting THEN GreetingTurn(<<HELLO>>, <<HELLO>>)
        ELSE GreetingTurn(character.char_greeting,
                          apply_extensions(args.pipe, character.char_greeting, "output"))
\* a character with a whitespace-only greeting and an example dialogue, loaded
\* with an extension at work
C7_Witness ==
    /\ CharacterLoaded /\ args.pipe = TagExt
    /\ character.has_greeting /\ character.char_greeting = <<SP>>
    /\ Len(history.internal) = 2
    /\ history.internal[2] = Row(<<SENTINEL>>, <<HELLO>>, 1)
    /\ history.visible = <<Row(<<>>, <<HELLO>>, 1)>>

\* the step at hand is a generation call raising in a chat request
FailStep == ChatAtWork /\ op'.error = "GenerationError"
\* the last row is the placeholder, or what the last turn of the loop wrote
LastRowWritten(rows, user, bot) ==
    /\ Len(rows) >= 1
    /\ \/ FromEnd(rows, 1).user = <<>> /\ FromEnd(rows, 1).bot = <<>>
       \/ FromEnd(rows, 1).user = user /\ FromEnd(rows, 1).bot = bot
\* C11: when a generation call raises during chatbot_wrapper the request ends
\* there and nothing of it runs again; the history is as it was before the
\* call: one turn more than when chatbot_wrapper began in each history, the
\* placeholder or the last reply extracted, and every earlier turn as it was.
C11_FailureLeavesLastWrite ==
    [][/\ FailStep =>
            /\ cw'.pc = "idle" /\ gen'.pc = "closed"
            /\ history' = history
            /\ Pop(history'.internal) = cw.before.internal
            /\ Pop(history'.visible) = cw.before.visible
            /\ LastRowWritten(history'.internal, cw.text, cw.reply)
            /\ LastRowWritten(history'.visible, cw.original_text,
                              apply_extensions(args.pipe, cw.reply, "output"))
       /\ op.error = "GenerationError" => op'.name \notin GeneratorSteps]_vars
\* the second increment of a streamed chat request raised: the turn holds the
\* reply of the first
C11_Witness ==
    /\ op = Raised("chatbot_wrapper", "GenerationError")
    /\ cw.pc = "idle" /\ ~args.no_stream
    /\ Len(history.internal) = 1
    /\ history.internal[1].bot = <<"a">>

FileLoaded == op.name = "load_history"
\* the file is a history record: a JSON object with 'data' or with 'chat'
HistoryRecord(file) == file.kind = "json" /\ (file.has_data \/ file.has_chat)
\* what a raw-dialogue parse makes of the file: the turns of its text, none
\* for a content without speaker labels
RawParse(file) ==
    LET internal == IF file.kind = "text"
                    THEN tokenize_dialogue(file.text, YourName, BotName) ELSE <<>>
    IN  [internal |-> Rows(internal, 0), visible |-> Rows(internal, 0)]
\* C13: load_history never fails; a content that is no history record is
\* parsed as raw dialogue; in every case both histories are replaced by the
\* loaded result, visible a copy of internal when the record has no visible
\* data.
C13_UploadAlwaysReplaces ==
    FileLoaded =>
        /\ op.error = "none"
        /\ history = IF HistoryRecord(op.file)
                     THEN load_history(history, op.file, YourName, BotName)
                     ELSE RawParse(op.file)

\* s ends with t
EndsWith(s, t) == Len(t) <= Len(s) /\ SubSeq(s, Len(s) - Len(t) + 1, Len(s)) = t
\* C14: whatever the history and the budget, the prompt begins with the
\* context header and ends with the mandatory trailing lines: the pending
\* user line and the bot prefix for a normal turn, '{name1}:' for an
\* impersonate turn.
C14_TrimmingKeepsPendingRows ==
    pw.pc = "done" =>
        /\ StartsWith(pw.question, HeaderRow(PwContext))
        /\ EndsWith(pw.question, Join(PwPending))
        /\ Len(pw.rows) >= 1 + Len(PwPending)

\* "\n{other}:" starts at offset i of the candidate, and nowhere before
FirstLabelAt(i) ==
    /\ OccursAt(ex.candidate, <<NL>> \o ex.other \o <<":">>, i)
    /\ \A k \in 0..(i - 1) : ~OccursAt(ex.candidate, <<NL>> \o ex.other \o <<":">>, k)
\* C15: with stop-at-newline off, next-character-found is raised exactly when
\* the candidate contains a newline followed by "{other}:"; the reply is then
\* the paragraph-normalized text before the first such place, and otherwise
\* the paragraph-normalized candidate.
C15_NextCharacterFound ==
    (ExDone /\ ~ex.check) =>
        /\ ex.out.next_character_found <=> \E i \in 0..Len(ex.candidate) : FirstLabelAt(i)
        /\ \A i \in 0..Len(ex.candidate) :
              FirstLabelAt(i) =>
                  ex.out.reply = clean_chat_message(SubSeq(ex.candidate, 1, i))
        /\ ~ex.out.next_character_found =>
              ex.out.reply = clean_chat_message(ex.candidate)
\* the bot's "a" followed by the start of the user's next line
C15_Witness ==
    /\ ExDone /\ ~ex.check /\ ex.extensions
    /\ ex.candidate = <<"a", NL>> \o ex.other \o <<":">>
    /\ ex.out.next_character_found
    /\ ex.out.reply = <<"a">>

\* the generator at work is suspended at a yield: what it yields is on display
Surfacing(c) == c.pc \in {"yield_loop", "yield_last"}
\* C16: in chatbot_wrapper and impersonate_wrapper no reply for which
\* substring-found is true is surfaced, the last element of the sequence
\* included, and after the first reply with next-character-found no further
\* element is asked of generate_reply.
C16_WithheldRepliesNeverSurface ==
    [][/\ Surfacing(cw') => ~cw'.substring_found
       /\ (cw.pc # "idle" /\ cw.next_character_found) => op'.name # "loop"]_vars

\* ceil(T / 8)
IncrementsNeeded(tokens) == (tokens + IncrementTokens - 1) \div IncrementTokens
\* the new tokens there were when the last increment was issued
NewTokensBefore(g) == Len(g.prev) - Len(encode(g.question, g.tokens))
\* every increment so far gave the model's full 8 tokens
FullIncrements(g) ==
    Len(g.output) - Len(encode(g.question, g.tokens)) = g.calls * IncrementTokens
\* C17: in incremental mode, each increment giving 8 tokens, generate_reply
\* issues the ceil(T/8) increments needed to reach the T tokens asked for,
\* unless stopped earlier, and none once the new tokens have reached T.
C17_IncrementsReachTotal ==
    (GenStreaming /\ FullIncrements(gen)) =>
        /\ gen.calls <= IncrementsNeeded(gen.tokens)
        /\ gen.i >= 0 => NewTokensBefore(gen) < gen.tokens
        /\ (gen.pc = "exhausted" /\ gen.output[Len(gen.output)] # gen.n) =>
              gen.calls = IncrementsNeeded(gen.tokens)

(***************************************************************************)
(* SpecGenLive: SpecGen with a consumer that goes on asking for the next   *)
(* element as long as there is one, unless it abandons the generator.      *)
(***************************************************************************)
SpecGenLive == GenInit /\ [][GenNext]_vars /\ WF_vars(GenCall) /\ WF_vars(GenPull)
\* the generator has ended or was abandoned
GenOver == gen.pc \in {"exhausted", "abandoned"}
\* the last increment's last token is the end token
EndTokenLast(g) == g.pc = "yielded" /\ g.i >= 0 /\ g.output[Len(g.output)] = g.n
\* C18: the incremental loop always terminates, and no increment is issued
\* after an increment whose last token is the end token: the tokenizer's EOS
\* by default, the last token of eos_token when the caller gives one.
C18_LoopEndsAtEndToken ==
    /\ <>GenOver
    /\ [][EndTokenLast(gen) => gen'.calls = gen.calls /\ gen'.pc # "yielded"]_vars
\* a request for 16 tokens with newline as end token, over after one increment
C18_Witness ==
    /\ gen.pc = "exhausted" /\ ~gen.no_stream
    /\ gen.tokens = 16 /\ gen.eos_token = <<NL>> /\ gen.n = NL
    /\ gen.calls = 1
    /\ gen.output = GenQuestion \o <<"a", NL>>

\* the row is the placeholder ['', '']
Placeholder(row) == row.user = <<>> /\ row.bot = <<>>
\* C19: a chat request appends one turn to each history, the placeholder,
\* before its first increment; every increment rewrites that last turn only,
\* internal to [transformed user text, reply so far], visible to [original
\* user text, output-transformed reply so far]; the turns before it are as
\* they were throughout; and the last turn, once filled, is never the
\* placeholder again.
C19_RequestRewritesLastTurnOnly ==
    [][/\ ChatAtWork' =>
            /\ Len(history'.internal) = Len(cw'.before.internal) + 1
            /\ Len(history'.visible) = Len(cw'.before.visible) + 1
            /\ Pop(history'.internal) = cw'.before.internal
            /\ Pop(history'.visible) = cw'.before.visible
            /\ gen'.pc = "new" =>
                  /\ Placeholder(FromEnd(history'.internal, 1))
                  /\ Placeholder(FromEnd(history'.visible, 1))
            /\ gen'.pc # "new" =>
                  /\ FromEnd(history'.internal, 1).user = cw'.text
                  /\ FromEnd(history'.internal, 1).bot = cw'.reply
                  /\ FromEnd(history'.visible, 1).user = cw'.original_text
                  /\ FromEnd(history'.visible, 1).bot =
                        apply_extensions(args.pipe, cw'.reply, "output")
       /\ (ChatAtWork /\ ChatAtWork' /\ ~Placeholder(FromEnd(history.internal, 1))) =>
             ~Placeholder(FromEnd(history'.internal, 1))]_vars

\* C20: after clear_chat_log with a character selected the internal history
\* ends with its first begin-chat-sentinel turn and the visible history is
\* that greeting alone, so no later turn survives; with the character 'None'
\* both histories are empty.
C20_ClearTruncatesToGreeting ==
    op.name = "clear_chat_log" =>
       IF character.name = "None"
       THEN history.internal = <<>> /\ history.visible = <<>>
       ELSE /\ Len(history.internal) > 0
            /\ HasSentinel(FromEnd(history.internal, 1).user)
            /\ \A i \in 1..(Len(history.internal) - 1) :
                  ~HasSentinel(history.internal[i].user)
            /\ Len(history.visible) = 1
            /\ history.visible[1].user = <<>>
            /\ history.visible[1].bot = FromEnd(history.internal, 1).bot

(***************************************************************************)
(* One request from the prompt to the replies: the loops of chatbot_wrapper *)
(* and impersonate_wrapper without the histories.  The prompt is built for *)
(* a budget of a few tokens, so that encode truncates some prompts and not *)
(* others; the context box holds a plain word or a line of the bot's.      *)
(***************************************************************************)
MaxCalls == 2
TurnContexts == {<<"C">>, <<"B", ":">>}
TurnChunks == {<<"a">>, <<":">>, <<EOS>>}
TurnInit ==
    /\ ex = Off /\ td = Off /\ gen = Off /\ ChatOff
    /\ \E internal \in Histories(PwTurns, 1), budget \in 1..MaxBudget,
          context \in TurnContexts, impersonate \in BOOLEAN, pipe \in Pipelines,
          no_stream \in BOOLEAN, check \in BOOLEAN :
         pw = [pc |-> "call", pipe |-> pipe, internal |-> internal, text |-> PwText,
               tokens |-> ContextLimit - budget, history_size |-> 0,
               impersonate |-> impersonate, context |-> context,
               no_stream |-> no_stream, check |-> check]
\* lines 488-493 and 504-506: the prompt, and the generator created for it
TurnPrompt ==
    /\ pw.pc = "call"
    /\ LET text == IF pw.impersonate THEN pw.text
                   ELSE apply_extensions(pw.pipe, pw.text, "input")
           question == generate_chat_prompt(pw.pipe, pw.internal, text, pw.tokens,
                           PwName1, PwName2, pw.context, pw.history_size, pw.impersonate)
       IN  /\ pw' = [pw EXCEPT !.pc = "done"] @@ [question |-> question]
           /\ gen' = GenNew(TRUE, pw.no_stream, pw.pipe, question, pw.tokens,
                            IF pw.check THEN <<NL>> ELSE <<>>)
    /\ UNCHANGED <<ex, td, chatVars>>
\* lines 493-500 and 506-511: one turn of the loop, the next element of the
\* generator and its extraction
TurnIncrement ==
    /\ pw.pc = "done"
    /\ gen.pc \in {"new", "yielded"}
    /\ gen.calls < MaxCalls \/ ~GenWillGenerate(gen)
    /\ ex.pc = "off" \/ (ex.pc = "done" /\ ~ex.out.next_character_found)
    /\ \E chunk \in GenChunks(gen) \cap (TurnChunks \cup {<<>>}) :
         /\ gen' = IF gen.pc = "new" THEN GenFirst(gen, chunk) ELSE GenResume(gen, chunk)
         /\ IF gen'.pc = "exhausted"
            THEN ex' = [ex EXCEPT !.pc = "over"]
            ELSE LET current == IF pw.impersonate THEN PwName1 ELSE PwName2
                     other == IF pw.impersonate THEN PwName2 ELSE PwName1
                     reply == gen'.yielded.text
                     idx == SelectMarker(pw.question, reply, current)
                     out == extract_message_from_reply(pw.pipe, pw.question, reply,
                                current, other, pw.check, ~pw.impersonate)
                 IN  ex' = [pc |-> IF out.error = "none" THEN "done" ELSE "raised",
                            pipe |-> pw.pipe, extensions |-> ~pw.impersonate,
                            question |-> pw.question, reply |-> reply,
                            current |-> current, other |-> other, check |-> pw.check,
                            candidate |-> IF idx = -1 THEN <<>>
                                          ELSE Candidate(pw.pipe, reply, idx, current,
                                                         ~pw.impersonate),
                            out |-> out]
    /\ UNCHANGED <<pw, td, chatVars>>
TurnNext == TurnPrompt \/ TurnIncrement
SpecTurn == TurnInit /\ [][TurnNext]_vars

\* the text the model has generated so far: what follows the encoded prompt
TurnGenerated ==
    decode(SubSeq(gen.output, Len(encode(pw.question, pw.tokens)) + 1, Len(gen.output)))
\* C21: for every prompt generate_chat_prompt builds and every transcript
\* generate_reply yields for it, the transcript has at least as many
\* '(start or newline){current}:' markers as the prompt, at least one, and
\* the text after the marker selected, the one numbered as the prompt's
\* last, is exactly the text generated after the prompt's trailing label.
C21_SelectedMarkerInRange ==
    ex.pc \in {"done", "raised"} =>
       LET n_prompt == Len(MarkerStarts(ex.question, ex.current))
       IN  /\ n_prompt >= 1
           /\ Len(MarkerStarts(ex.reply, ex.current)) >= n_prompt
           /\ ex.out.error = "none"
           /\ ex.candidate = TurnGenerated

\* the prompt holds the last m turns of the history, and nothing else of it
IncludesTurns(m) ==
    pw.question = HeaderRow(PwContext)
                    \o Join(TurnRows(pw.internal, Len(pw.internal) - m + 1))
                    \o Join(PwPending)
\* the token budget is not binding: the header, every turn of the history and
\* the pending rows together are under it
BudgetNotBinding ==
    Len(HeaderRow(PwContext) \o Join(TurnRows(pw.internal, 1)) \o Join(PwPending)) < PwBudget
\* the fewest most recent turns whose rows number k or more, all the turns
\* when there are fewer rows than that
TurnsForRows(k) ==
    LET n == Len(pw.internal)
        enough == {m \in 0..n : m = n \/ Len(TurnRows(pw.internal, n - m + 1)) >= k}
    IN  CHOOSE m \in enough : \A j \in enough : m <= j
\* C22 as stated: with history_size = k > 0 and the budget not binding the
\* prompt includes exactly the min(k, len(history)) most recent turns, with
\* history_size = 0 all of them.
C22_HistorySizeCountsTurns ==
    (pw.pc = "done" /\ BudgetNotBinding) =>
       IF pw.history_size = 0 THEN IncludesTurns(Len(pw.internal))
       ELSE IncludesTurns(Min(pw.history_size, Len(pw.internal)))
\* C22: history_size counts the rows of the prompt, two for a turn and one
\* for a greeting turn: with history_size = k > 0 and the budget not binding
\* the prompt includes the fewest most recent turns whose rows number k or
\* more (all turns when the history has fewer rows), which is never more
\* than min(k, len(history)) turns; with history_size = 0 it includes all.
C22_HistorySizeCountsRows ==
    (pw.pc = "done" /\ BudgetNotBinding) =>
       IF pw.history_size = 0 THEN IncludesTurns(Len(pw.internal))
       ELSE /\ IncludesTurns(TurnsForRows(pw.history_size))
            /\ TurnsForRows(pw.history_size) <= Min(pw.history_size, Len(pw.internal))
\* three turns, a limit of 4 met by the rows of the last two
C22_Witness ==
    /\ pw.pc = "done" /\ BudgetNotBinding
    /\ pw.history_size = 4 /\ Len(pw.internal) = 3
    /\ TurnsForRows(4) = 2
    /\ IncludesTurns(2)

(***************************************************************************)
(* load_model_wrapper.  The loader holds the three globals, a model and a  *)
(* tokenizer being named after the directory they were loaded from, and    *)
(* the names of the models whose weights are in device memory.  load_model *)
(* is the model library's: it returns a model and a tokenizer, held by the *)
(* caller until line 169 assigns them, or raises.                          *)
(***************************************************************************)
MaxLoadCalls == 3
\* available_models
Models == {"m1", "m2", "m3"}
\* lines 733-748: the state after startup, model m loaded
LoaderNew(cpu, m) ==
    [pc |-> "idle", cpu |-> cpu, model_name |-> m, model |-> m, tokenizer |-> m,
     selected |-> m, local |-> "None", device |-> IF cpu THEN {} ELSE {m},
     calls |-> 0, loads |-> 0, last |-> "start"]
\* a slip: lines 165-168 left out
KeepModel(l) == l
\* lines 165-168: the references dropped, and the device memory reclaimed
ReleaseModel(l) ==
    [l EXCEPT !.model = "None", !.tokenizer = "None",
              !.device = IF l.cpu THEN @ ELSE {}]
ModelInit ==
    /\ ex = Off /\ pw = Off /\ td = Off /\ gen = Off
    /\ args = Off /\ history = Off /\ character = "None" /\ cw = Off /\ op = Off
    /\ \E cpu \in BOOLEAN, m \in Models : loader = LoaderNew(cpu, m)
\* lines 160-164 and 171: the call, up to the release or, for the model
\* recorded, to the return
LoadModelCall ==
    /\ loader.pc = "idle"
    /\ loader.calls < MaxLoadCalls
    /\ \E selected_model \in Models :
         IF selected_model # loader.model_name
         THEN loader' = [loader EXCEPT !.pc = "release", !.selected = selected_model,
                                       !.model_name = selected_model,
                                       !.calls = @ + 1, !.last = "swap"]
         ELSE loader' = [loader EXCEPT !.selected = selected_model,
                                       !.calls = @ + 1, !.last = "same"]
    /\ UNCHANGED <<ex, pw, td, gen, args, history, character, cw, op>>
\* lines 165-168
LoadModelRelease ==
    /\ loader.pc = "release"
    /\ loader' = [ReleaseModel(loader) EXCEPT !.pc = "load"]
    /\ UNCHANGED <<ex, pw, td, gen, args, history, character, cw, op>>
\* load_model(model_name), lines 98-158, returns
LoadModelLoaded ==
    /\ loader.pc = "load"
    /\ loader' = [loader EXCEPT !.pc = "assign", !.local = loader.model_name,
                     !.loads = @ + 1,
                     !.device = IF loader.cpu THEN @ ELSE @ \cup {loader.model_name}]
    /\ UNCHANGED <<ex, pw, td, gen, args, history, character, cw, op>>
\* load_model(model_name) raises: the handler ends there
LoadModelFails ==
    /\ loader.pc = "load"
    /\ loader' = [loader EXCEPT !.pc = "idle", !.last = "raised"]
    /\ UNCHANGED <<ex, pw, td, gen, args, history, character, cw, op>>
\* line 169, the assignment, and the return
LoadModelAssign ==
    /\ loader.pc = "assign"
    /\ loader' = [loader EXCEPT !.pc = "idle", !.model = loader.local,
                                !.tokenizer = loader.local, !.local = "None"]
    /\ UNCHANGED <<ex, pw, td, gen, args, history, character, cw, op>>
ModelNext ==
    \/ LoadModelCall \/ LoadModelRelease \/ LoadModelLoaded \/ LoadModelFails
    \/ LoadModelAssign
SpecModel == ModelInit /\ [][ModelNext]_vars

\* the models and the tokenizers something refers to
ModelsHeld(l) == {l.model, l.local} \ {"None"}
TokenizersHeld(l) == {l.tokenizer, l.local} \ {"None"}
\* C23: in any sequence of load_model_wrapper calls, when a call naming
\* another model acquires it the previous model and tokenizer are referred to
\* no more and, on a device, its memory holds no model; two models, or two
\* tokenizers, are never held at once; and a call naming the model recorded
\* releases nothing and loads nothing.
C23_ReleaseBeforeLoad ==
    [][/\ (loader.pc = "load" /\ loader'.pc = "assign") =>
            /\ loader.model = "None" /\ loader.tokenizer = "None"
            /\ ModelsHeld(loader) = {}
            /\ ~loader.cpu => loader.device = {}
            /\ loader'.local = loader.selected
       /\ Cardinality(ModelsHeld(loader')) <= 1
       /\ Cardinality(TokenizersHeld(loader')) <= 1
       /\ Cardinality(loader'.device) <= 1
       /\ (loader.pc = "idle" /\ loader'.last = "same" /\ loader'.calls # loader.calls) =>
            /\ loader'.pc = "idle"
            /\ loader'.model = loader.model /\ loader'.tokenizer = loader.tokenizer
            /\ loader'.model_name = loader.model_name
            /\ loader'.device = loader.device /\ loader'.local = loader.local
            /\ loader'.loads = loader.loads
       /\ (loader.pc = "idle" /\ loader'.last = "swap" /\ loader'.calls # loader.calls) =>
            loader'.pc = "release"]_vars
\* a second model has taken the place of the first, and a call has named the
\* model recorded
C23_Witness ==
    /\ loader.pc = "idle" /\ loader.calls = 2 /\ loader.last = "same"
    /\ loader.loads = 1
    /\ loader.model = loader.selected /\ ~loader.cpu
    /\ loader.device = {loader.model}

\* the turn at index i of the internal history is a greeting turn
GreetingAt(h, i) == i \in 1..Len(h.internal) /\ h.internal[i].user = <<SENTINEL>>
\* C24: a step of remove_last_message or of regenerate_wrapper leaves every
\* greeting turn of the internal history where it is, a greeting turn still.
C24_GreetingTurnStays ==
    [][op'.name \in {"remove_last_message", "regenerate_wrapper"} =>
          \A i \in 1..Len(history.internal) :
             GreetingAt(history, i) => GreetingAt(history', i)]_vars

\* both histories are empty
HistoryEmpty(h) == h.internal = <<>> /\ h.visible = <<>>
\* C25: remove_last_message and regenerate_wrapper invoked when the history
\* is empty raise no error and remove nothing.
C25_EmptyHistoryIsHarmless ==
    [][(HistoryEmpty(history)
          /\ op'.name \in {"remove_last_message", "regenerate_wrapper"}) =>
          (op'.error = "none"
             /\ (op'.name = "remove_last_message" => history' = history))]_vars
====
